---- MODULE Spec2Model ----
(***************************************************************************)
(* Model of src/gempa_dash.py: the earthquake dashboard's data set, the    *)
(* constants pre-computed from it at import time, the filter helper        *)
(* filter_data and the two callbacks that call it.                          *)
(*                                                                         *)
(* Encodings.  A timestamp is the integer yyyymmdd, so that dt.year is     *)
(* time \div 10000.  A magnitude is an integer number of tenths (5.5 is    *)
(* 55).  Coordinates are integers in 1/10000 degree, and a missing (NaN)    *)
(* coordinate is the reserved value NaN.  A Python value that may be None  *)
(* is a record [some |-> BOOLEAN, v |-> value]; a Python list is a         *)
(* sequence.  A DataFrame is a sequence of row records; a filtered         *)
(* DataFrame is the sequence of the row labels (indices into df) it keeps. *)
(* A file is the optional value of what reading it gives (None: the file   *)
(* is missing and the read raises FileNotFoundError).                      *)
(***************************************************************************)
EXTENDS Integers, Sequences, FiniteSets, TLC

\* ------------------------------------------------------------------ bounds
\* Largest number of rows of a generated data set.
MaxRecords == 2

\* Largest number of articles added to the seeded list.
MaxArticles == 2

\* ----------------------------------------------------------- small helpers
Range(s) == {s[i] : i \in DOMAIN s}

SetMin(S) == CHOOSE x \in S : \A y \in S : x <= y

SetMax(S) == CHOOSE x \in S : \A y \in S : x >= y

None == [some |-> FALSE, v |-> <<>>]

Some(x) == [some |-> TRUE, v |-> x]

NoneInt == [some |-> FALSE, v |-> 0]

\* Python truthiness of an optional list: None and [] are falsy.
Truthy(l) == l.some /\ Len(l.v) > 0

\* Series.dt.year
Year(t) == t \div 10000

\* Series.between(left, right), inclusive on both sides.
Between(x, left, right) == left <= x /\ x <= right

\* A missing coordinate (float NaN), outside every coordinate's range.
NaN == 99999999

\* pd.isna
IsNa(x) == x = NaN

\* Float comparison: False when an operand is NaN.
Lt(a, b) == ~IsNa(a) /\ ~IsNa(b) /\ a < b

Gt(a, b) == ~IsNa(a) /\ ~IsNa(b) /\ a > b

\* ------------------------------------------------------------ the data set
Sentinel == "Lainnya"

\* The fallback classifier without its last return: the function ends and
\* returns None.
FallbackWithoutDefault(lat, lon) ==
    IF Lt(lat, -50000) /\ Lt(lon, 1100000) THEN "Sumatera/Jawa Barat"
    ELSE IF Gt(lat, -10000) /\ Gt(lon, 1200000) THEN "Sulawesi/Maluku"
    ELSE "None"

\* Fallback classifier, used when data/worldcities.csv is missing.
detect_province_fast_fallback(lat, lon) ==
    IF Lt(lat, -50000) /\ Lt(lon, 1100000) THEN "Sumatera/Jawa Barat"
    ELSE IF Gt(lat, -10000) /\ Gt(lon, 1200000) THEN "Sulawesi/Maluku"
    ELSE Sentinel

\* df["province"] = ...: the row with the province column set.
WithProvince(r, p) ==
    [f \in DOMAIN r \cup {"province"} |-> IF f = "province" THEN p ELSE r[f]]

\* The dummy rows substituted when data/combined/combined.csv is missing.
DummyRaw ==
    << [time |-> 20251015, latitude |-> -62088, longitude |-> 1068456,
        depth |-> 100, magnitude |-> 55],
       [time |-> 20251016, latitude |-> -77956, longitude |-> 1103695,
        depth |-> 505, magnitude |-> 42],
       [time |-> 20240520, latitude |-> -84095, longitude |-> 1151889,
        depth |-> 123, magnitude |-> 61],
       [time |-> 20230101, latitude |-> 7893, longitude |-> 1139213,
        depth |-> 1500, magnitude |-> 70],
       [time |-> 20251014, latitude |-> -69034, longitude |-> 1076191,
        depth |-> 200, magnitude |-> 35] >>

\* The dummy rows with the province column of the fallback classifier.
DummyData ==
    [i \in DOMAIN DummyRaw |->
        WithProvince(DummyRaw[i],
                     detect_province_fast_fallback(DummyRaw[i].latitude,
                                                   DummyRaw[i].longitude))]

\* The rows a generated (loaded and classified) data set is made of: a year
\* just outside the five-year window of the last one, the window's first and
\* last year, three magnitudes, two provinces and the sentinel.  A data set
\* may hold a row several times (rows with one timestamp).
RowDom ==
    { [time |-> 20200101, magnitude |-> 35, province |-> "Bali"],
      [time |-> 20210101, magnitude |-> 70, province |-> "Jawa Barat"],
      [time |-> 20250101, magnitude |-> 55, province |-> Sentinel] }

SeqsUpTo(S, n) == UNION {[1..k -> S] : k \in 1..n}

DataSets == SeqsUpTo(RowDom, MaxRecords) \cup {DummyData}

\* ------------------------------------------------- the files startup reads
\* The rows a generated data/combined/combined.csv is made of, all but the
\* last on the equator: 56 km, 149 km and 150 km east of the city at 109 E,
\* a missing latitude, a missing longitude, 121 E, half way between the
\* cities at 109 E and 111.5 E, and a latitude out of range.
CsvRowDom ==
    { [time |-> 20200101, latitude |-> 0, longitude |-> 1095000, magnitude |-> 35],
      [time |-> 20210101, latitude |-> 0, longitude |-> 1103400, magnitude |-> 70],
      [time |-> 20250101, latitude |-> 0, longitude |-> 1103500, magnitude |-> 55],
      [time |-> 20250101, latitude |-> NaN, longitude |-> 1095000, magnitude |-> 55],
      [time |-> 20200101, latitude |-> 0, longitude |-> NaN, magnitude |-> 35],
      [time |-> 20210101, latitude |-> 0, longitude |-> 1210000, magnitude |-> 70],
      [time |-> 20250101, latitude |-> 0, longitude |-> 1102500, magnitude |-> 55],
      [time |-> 20200101, latitude |-> 950000, longitude |-> 1090000, magnitude |-> 35] }

CombinedFiles == {None} \cup {Some(d) : d \in SeqsUpTo(CsvRowDom, MaxRecords)}

\* Rows of data/worldcities.csv.
CityWest ==
    [lat |-> 0, lng |-> 1090000, country |-> "Indonesia",
     admin_name |-> "Kalimantan Barat"]

CityMid ==
    [lat |-> 0, lng |-> 1115000, country |-> "Indonesia",
     admin_name |-> "Kalimantan Tengah"]

CityEast ==
    [lat |-> 0, lng |-> 1205000, country |-> "Indonesia",
     admin_name |-> "Sulawesi Tengah Province"]

CityJava ==
    [lat |-> -62000, lng |-> 1068000, country |-> "Indonesia",
     admin_name |-> "Jakarta"]

CityAbroad ==
    [lat |-> 0, lng |-> 1105000, country |-> "Malaysia",
     admin_name |-> "Sarawak"]

\* The file is missing, or holds one of two tables with Indonesian cities
\* and a city abroad that lies between them.
WorldCitiesFiles ==
    { None,
      Some(<<CityAbroad, CityWest, CityEast>>),
      Some(<<CityWest, CityMid, CityAbroad, CityEast, CityJava>>) }

VARIABLES
    phase,            \* where the module-level startup code is ("ready": done)
    files,            \* what reading each data file gives
    has_clusters,     \* the module global has_clusters ("unbound": not assigned)
    tree_queries,     \* the number of calls of tree.query so far
    treeTie,          \* which of two equally near cities tree.query returns
    df,               \* the classified DataFrame (module global)
    tieRank,          \* how this build's sort orders rows with equal keys
    pc,               \* the callback being served ("idle": none)
    provinces_input,  \* the arguments of its call of filter_data
    mag_range,
    years,
    start_year,
    end_year,
    filtered,         \* what that call of filter_data did
    output,           \* what the callback returns to the framework
    articles,         \* the module global articles (None: not bound yet)
    article_call,     \* the arguments of the call of manage_articles served
    map_view,         \* the inputs and result of the map view logic served
    analysis_call,    \* the arguments of the call of update_analysis_page served
    evacuation_data,  \* the module global evacuation_data (None: not bound yet)
    posko             \* each request thread's call of update_evacuation_map

startup_vars == <<phase, files, has_clusters, tree_queries, treeTie>>

vars == <<phase, files, has_clusters, tree_queries, treeTie, df, tieRank, pc,
          provinces_input, mag_range, years, start_year, end_year, filtered,
          output, articles, article_call, map_view, analysis_call,
          evacuation_data, posko>>

panel_vars == <<articles, article_call>>

pages_vars == <<map_view, analysis_call, evacuation_data, posko>>

Rows == DOMAIN df

\* ------------------------------------------------------ province detection
worldcities == files.worldcities.v

\* The city table without the filter on the country column.
UnfilteredCities == worldcities

\* worldcities[worldcities["country"] == "Indonesia"]
indo == SelectSeq(worldcities, LAMBDA c : c.country = "Indonesia")

\* Kilometres of arc of a coordinate: 6371 km times the angle in radians,
\* 111.2 km per degree, rounded down.
KmOf(x) == ((x \div 100) * 1112) \div 1000

\* The square of dist * 6371 for two points near the equator, where the
\* haversine distance is the plane distance of their arcs.
SqKm(lat1, lon1, lat2, lon2) ==
    (KmOf(lat1) - KmOf(lat2)) * (KmOf(lat1) - KmOf(lat2))
        + (KmOf(lon1) - KmOf(lon2)) * (KmOf(lon1) - KmOf(lon2))

\* tree.query(..., k=1): the distance (squared, in km) and position in indo
\* of the nearest city.
TreeQuery(lat, lon) ==
    LET d(k) == SqKm(lat, lon, indo[k].lat, indo[k].lng)
        best == SetMin({d(k) : k \in DOMAIN indo})
        near == {k \in DOMAIN indo : d(k) = best}
    IN  [dist2 |-> best,
         idx   |-> IF treeTie = "low" THEN SetMin(near) ELSE SetMax(near)]

\* The threshold test with <= for <.
AtOrBelowThreshold(dist2) == dist2 <= 150 * 150

\* dist[0][0] * 6371 < 150
BelowThreshold(dist2) == dist2 < 150 * 150

\* str(admin_name).replace("Province", "").strip(), on the names of the
\* city tables.
StripProvince(name) ==
    IF name = "Sulawesi Tengah Province" THEN "Sulawesi Tengah" ELSE name

\* detect_province_fast with the lookup made before the test for NaN.
DetectLookupFirst(lat, lon) ==
    LET q == TreeQuery(lat, lon)
    IN  IF IsNa(lat) \/ IsNa(lon) THEN [label |-> Sentinel, queried |-> TRUE]
        ELSE IF BelowThreshold(q.dist2)
        THEN [label |-> StripProvince(indo[q.idx].admin_name), queried |-> TRUE]
        ELSE [label |-> Sentinel, queried |-> TRUE]

\* detect_province_fast(lat, lon): the label returned and whether tree.query
\* was called.
detect_province_fast(lat, lon) ==
    IF IsNa(lat) \/ IsNa(lon) THEN [label |-> Sentinel, queried |-> FALSE]
    ELSE LET q == TreeQuery(lat, lon)
         IN  IF BelowThreshold(q.dist2)
             THEN [label |-> StripProvince(indo[q.idx].admin_name),
                   queried |-> TRUE]
             ELSE [label |-> Sentinel, queried |-> TRUE]

all_years == [i \in Rows |-> Year(df[i].time)]

\* ------------------------------------------- pre-calculation and constants
valid_provinces == {df[i].province : i \in {j \in Rows : df[j].province # Sentinel}}

Count(p) == Cardinality({i \in Rows : df[i].province = p})

FirstRow(p) == SetMin({i \in Rows : df[i].province = p})

AllProvinces == {df[i].province : i \in Rows}

\* top_province with value_counts() taken over the whole province column.
TopOfWholeColumn ==
    IF valid_provinces = {} THEN Sentinel
    ELSE CHOOSE p \in AllProvinces :
            \A q \in AllProvinces :
                \/ Count(p) > Count(q)
                \/ Count(p) = Count(q) /\ FirstRow(p) <= FirstRow(q)

\* value_counts().idxmax() over the rows with a non-sentinel province: the
\* most frequent label, the one seen first among equally frequent ones.
top_province ==
    IF valid_provinces = {} THEN Sentinel
    ELSE CHOOSE p \in valid_provinces :
            \A q \in valid_provinces :
                \/ Count(p) > Count(q)
                \/ Count(p) = Count(q) /\ FirstRow(p) <= FirstRow(q)

min_mag_data == SetMin({df[i].magnitude : i \in Rows})

max_mag_data == SetMax({df[i].magnitude : i \in Rows})

min_year_data == SetMin(Range(all_years))

max_year_data == SetMax(Range(all_years))

RECURSIVE SortedDesc(_)
SortedDesc(S) ==
    IF S = {} THEN <<>>
    ELSE LET m == SetMax(S) IN <<m>> \o SortedDesc(S \ {m})

Take(s, n) == [i \in 1..(IF Len(s) < n THEN Len(s) ELSE n) |-> s[i]]

default_years_selection == Take(SortedDesc(Range(all_years)), 5)

default_start_year ==
    IF Len(default_years_selection) > 0
    THEN default_years_selection[Len(default_years_selection)]
    ELSE min_year_data

default_end_year ==
    IF Len(default_years_selection) > 0
    THEN default_years_selection[1]
    ELSE max_year_data

\* ------------------------------------------------------------- filter_data
\* Series.unique().tolist(): the distinct values in order of first appearance.
RECURSIVE UniqueFrom(_, _)
UniqueFrom(i, seen) ==
    IF i > Len(df) THEN <<>>
    ELSE IF df[i].province \in seen THEN UniqueFrom(i + 1, seen)
    ELSE <<df[i].province>> \o UniqueFrom(i + 1, seen \cup {df[i].province})

unique_provinces == UniqueFrom(1, {})

\* Step 1 of filter_data: the province default.
ResolveProvinces(pin) ==
    IF ~Truthy(pin)
    THEN IF top_province # Sentinel THEN <<top_province>> ELSE unique_provinces
    ELSE pin.v

has_valid_range(sy, ey) ==
    /\ sy.some
    /\ ey.some
    /\ sy.v >= min_year_data
    /\ ey.v <= max_year_data
    /\ sy.v <= ey.v

\* YearFilter with the range given priority over the year list.
RangeBeforeYears(ys, sy, ey) ==
    IF has_valid_range(sy, ey)
    THEN {i \in Rows : Between(all_years[i], sy.v, ey.v)}
    ELSE IF Truthy(ys)
    THEN {i \in Rows : all_years[i] \in Range(ys.v)}
    ELSE {i \in Rows : Between(all_years[i], max_year_data - 4, max_year_data)}

\* YearFilter with a default window one year too wide.
SixYearWindow(ys, sy, ey) ==
    IF Truthy(ys)
    THEN {i \in Rows : all_years[i] \in Range(ys.v)}
    ELSE IF has_valid_range(sy, ey)
    THEN {i \in Rows : Between(all_years[i], sy.v, ey.v)}
    ELSE {i \in Rows : Between(all_years[i], max_year_data - 5, max_year_data)}

\* Step 2 of filter_data: the rows the local year_filter admits.
YearFilter(ys, sy, ey) ==
    IF Truthy(ys)
    THEN {i \in Rows : all_years[i] \in Range(ys.v)}
    ELSE IF has_valid_range(sy, ey)
    THEN {i \in Rows : Between(all_years[i], sy.v, ey.v)}
    ELSE {i \in Rows : Between(all_years[i], max_year_data - 4, max_year_data)}

\* mag_range[0] and mag_range[1]: what subscripting raises, if anything.
MagRaises(mr) ==
    IF ~mr.some THEN "TypeError"
    ELSE IF Len(mr.v) < 2 THEN "IndexError"
    ELSE "none"

\* sort_values("time", ascending=False) with the default kind (quicksort,
\* which is not stable): descending by time, rows with equal times in the
\* order this build's sort leaves them in (tieRank).
Before(a, b) ==
    \/ df[a].time > df[b].time
    \/ df[a].time = df[b].time /\ tieRank[a] < tieRank[b]

RECURSIVE SortValues(_)
SortValues(S) ==
    IF S = {} THEN <<>>
    ELSE LET a == CHOOSE x \in S : \A y \in S \ {x} : Before(x, y)
         IN  <<a>> \o SortValues(S \ {a})

\* MainMask without the year predicate.
MaskWithoutYear(mr, year_mask, provinces) ==
    {i \in Rows :
        /\ Between(df[i].magnitude, mr.v[1], mr.v[2])
        /\ df[i].province \in Range(provinces)}

\* Step 3 of filter_data: the boolean mask of the main filter.
MainMask(mr, year_mask, provinces) ==
    {i \in Rows :
        /\ Between(df[i].magnitude, mr.v[1], mr.v[2])
        /\ i \in year_mask
        /\ df[i].province \in Range(provinces)}

\* filter_data(provinces_input, mag_range, years, start_year, end_year): what
\* the caller sees (raised, and on a normal return dff and provinces) and the
\* local year_filter.
FilterData(pin, mr, ys, sy, ey) ==
    LET provinces == ResolveProvinces(pin)
        year_mask == YearFilter(ys, sy, ey)
        raised    == MagRaises(mr)
    IN  IF raised # "none"
        THEN [raised |-> raised, year_filter |-> year_mask,
              dff |-> <<>>, provinces |-> <<>>]
        ELSE [raised |-> "none", year_filter |-> year_mask,
              dff |-> SortValues(MainMask(mr, year_mask, provinces)),
              provinces |-> provinces]

\* ------------------------------------------------- what the callbacks return
\* dt.strftime('%Y-%m-%d %H:%M'): the text's year, month and day.
FormatTime(t) == <<t \div 10000, (t \div 100) % 100, t % 100>>

\* A row of display_df (the columns of the table that the model's rows have).
DisplayRow(r) ==
    [Time |-> FormatTime(r.time), Magnitude |-> r.magnitude,
     Province |-> r.province]

NoOutput == [kind |-> "none", total |-> 0, rows |-> <<>>]

\* An exception left the callback: the framework gets no return value.
Raised == [kind |-> "error", total |-> 0, rows |-> <<>>]

\* update_dashboard's total_quakes and table (the message when dff is empty).
DashboardOutput(fd) ==
    IF fd.raised # "none" THEN Raised
    ELSE [kind  |-> IF Len(fd.dff) = 0 THEN "message" ELSE "table",
          total |-> Len(fd.dff),
          rows  |-> [k \in DOMAIN fd.dff |-> DisplayRow(df[fd.dff[k]])]]

RECURSIVE SortedAsc(_)
SortedAsc(S) ==
    IF S = {} THEN <<>>
    ELSE LET m == SetMin(S) IN <<m>> \o SortedAsc(S \ {m})

\* The export with the rows in the order of df.
CsvInFrameOrder(dff) ==
    LET order == SortedAsc(Range(dff))
    IN  [k \in DOMAIN order |-> df[order[k]]]

\* dff.to_csv(index=False): the records of dff, every column, in dff's order.
CsvRows(dff) == [k \in DOMAIN dff |-> df[dff[k]]]

\* download_filtered_data's return value.
DownloadOutput(fd) ==
    IF fd.raised # "none" THEN Raised
    ELSE [kind |-> "csv", total |-> Len(fd.dff), rows |-> CsvRows(fd.dff)]

\* --------------------------------------------------------------- the inputs
ProvinceInputs ==
    {None, Some(<<>>), Some(<<"Bali">>), Some(<<Sentinel, "Sumatera/Jawa Barat">>)}

MagVals == {20, 55, 100}

MagInputs ==
    {None, Some(<<>>), Some(<<55>>), Some(<<20, 100, 55>>)}
        \cup {Some(<<a, b>>) : a \in MagVals, b \in MagVals \ {100}}
        \cup {Some(<<20, 100>>), Some(<<55, 100>>)}

YearsInputs == {None, Some(<<>>), Some(<<2025>>), Some(<<2030>>)}

\* Bounds below, at and above the years of the generated rows; 2030 is above
\* every data set's last year.
StartYearInputs == {NoneInt, Some(2020), Some(2025)}

EndYearInputs == {NoneInt, Some(2020), Some(2025), Some(2030)}

\* ------------------------------------------------------------ the articles
\* A text input's value: None while untouched, "" when emptied.
NoneStr == [some |-> FALSE, v |-> ""]

StrTruthy(x) == x.some /\ x.v # ""

\* The four articles the list is seeded with.
SeedArticles ==
    << [title |-> "10 Cara Menyelamatkan Diri dari Gempa Bumi",
        url |-> "https://www.bmkg.go.id/gempabumi/panduan-gempa.bmkg",
        image |-> "photo-1590859808308", description |-> "Kenali 10 langkah"],
       [title |-> "Panduan Evakuasi Darurat untuk Keluarga",
        url |-> "https://www.bnpb.go.id/artikel/evakuasi-gempa",
        image |-> "photo-1551836022", description |-> "Persiapkan rencana"],
       [title |-> "Pertolongan Pertama untuk Korban Gempa",
        url |-> "https://www.pmi.or.id/p3k-gempa",
        image |-> "photo-1584820927498", description |-> "Pelajari teknik"],
       [title |-> "Membangun Rumah Tahan Gempa",
        url |-> "https://www.pu.go.id/rumah-tahan-gempa",
        image |-> "photo-1503387762", description |-> "Konstruksi bangunan"] >>

DefaultImage == "photo-1451187580459"

DefaultDescription == "Baca artikel lengkap"

TitleInputs == {NoneStr, Some(""), Some("Gempa Cianjur")}

UrlInputs == {NoneStr, Some(""), Some("https://example.org/cianjur")}

ImageInputs == {NoneStr, Some(""), Some("cianjur.jpg")}

DescriptionInputs == {NoneStr, Some("Kronologi")}

NoArticleCall ==
    [triggered |-> FALSE, title |-> NoneStr, url |-> NoneStr,
     image_url |-> NoneStr, description |-> NoneStr]

\* new_article
NewArticle(c) ==
    [title |-> c.title.v,
     url |-> c.url.v,
     image |-> IF StrTruthy(c.image_url) THEN c.image_url.v ELSE DefaultImage,
     description |-> IF StrTruthy(c.description) THEN c.description.v
                     ELSE DefaultDescription]

\* The list after the seeding step: the global when bound, else the seeds.
Seeded == IF articles.some THEN articles.v ELSE SeedArticles

\* The call appends: the add button triggered it and title and url are truthy.
Appends(c) == c.triggered /\ StrTruthy(c.title) /\ StrTruthy(c.url)

\* ------------------------------------------- the calls of the other pages
\* clickData before any click on the map.
NoClick == [some |-> FALSE, v |-> [lat |-> 0, lon |-> 0]]

\* No map view is being computed.
NoMapView ==
    [groups |-> <<>>, triggered_id |-> NoneStr, clickData |-> NoClick,
     lat |-> 0, lon |-> 0, zoom |-> 0]

\* No call of update_analysis_page is being served.
NoAnalysisCall == [pathname |-> "", selected_cluster |-> NoneInt]

\* The request threads of the development server (threaded by default).
Threads == {1, 2}

\* A thread that serves no call of update_evacuation_map.
NoRequest ==
    [pc |-> "idle", triggered |-> FALSE, name |-> NoneStr, gmaps_link |-> None,
     snapshot |-> <<>>, feedback |-> "", feedback_class |-> "",
     posko_list |-> <<>>]

\* ------------------------------------------------------------------- Init
NotCalled == [raised |-> "none", year_filter |-> {}, dff |-> <<>>, provinces |-> <<>>]

\* The orders a sort may leave equal-time rows in: any permutation of the row
\* labels that only moves a row among the rows with its own timestamp.
TieRanks(d) ==
    {r \in [DOMAIN d -> DOMAIN d] :
        /\ \A i, j \in DOMAIN d : i # j => r[i] # r[j]
        /\ \A i \in DOMAIN d : d[r[i]].time = d[i].time}

\* The startup inputs of a process whose data files are all missing.
NoFiles == [combined |-> None, clusters |-> FALSE, worldcities |-> None]

\* The state when the module has been imported: df is loaded and classified
\* and no callback is being served.  The files are not read again.
Init ==
    /\ phase = "ready"
    /\ files = NoFiles
    /\ has_clusters = "unbound"
    /\ tree_queries = 0
    /\ treeTie = "low"
    /\ df \in DataSets
    /\ tieRank \in TieRanks(df)
    /\ output = NoOutput
    /\ articles = None
    /\ article_call = NoArticleCall
    /\ pc = "idle"
    /\ provinces_input = None
    /\ mag_range = None
    /\ years = None
    /\ start_year = NoneInt
    /\ end_year = NoneInt
    /\ filtered = NotCalled
    /\ map_view = NoMapView
    /\ analysis_call = NoAnalysisCall
    /\ evacuation_data = None
    /\ posko = [t \in Threads |-> NoRequest]

\* ---------------------------------------------------------------- actions
\* Call with the view assigned to the global df.
CallFilteringInPlace(cb, p, m, y, s, e) ==
    /\ phase = "ready"
    /\ pc = "idle"
    /\ pc' = cb
    /\ provinces_input' = p
    /\ mag_range' = m
    /\ years' = y
    /\ start_year' = s
    /\ end_year' = e
    /\ filtered' = FilterData(p, m, y, s, e)
    /\ output' = IF cb = "update_dashboard"
                 THEN DashboardOutput(filtered')
                 ELSE DownloadOutput(filtered')
    /\ article_call' = NoArticleCall
    /\ df' = CsvRows(filtered'.dff)
    /\ tieRank' = [i \in DOMAIN df' |-> i]
    /\ UNCHANGED startup_vars
    /\ UNCHANGED articles
    /\ UNCHANGED pages_vars

\* A callback's call of filter_data, up to the point where filter_data
\* returns to it or raises.
Call(cb, p, m, y, s, e) ==
    /\ phase = "ready"
    /\ pc = "idle"
    /\ pc' = cb
    /\ provinces_input' = p
    /\ mag_range' = m
    /\ years' = y
    /\ start_year' = s
    /\ end_year' = e
    /\ filtered' = FilterData(p, m, y, s, e)
    /\ output' = IF cb = "update_dashboard"
                 THEN DashboardOutput(filtered')
                 ELSE DownloadOutput(filtered')
    /\ article_call' = NoArticleCall
    /\ UNCHANGED <<df, tieRank>>
    /\ UNCHANGED startup_vars
    /\ UNCHANGED articles
    /\ UNCHANGED pages_vars

\* The values the layout gives the five filter components.
layout_province == IF top_province # Sentinel THEN Some(<<top_province>>) ELSE Some(<<>>)

layout_mag == Some(<<min_mag_data, max_mag_data>>)

\* update_dashboard as invoked by the page load, with the layout's values.
InitialLoad ==
    Call("update_dashboard", layout_province, layout_mag, Some(<<>>),
         Some(default_start_year), Some(default_end_year))

\* update_dashboard as invoked by a change of a filter component, with the
\* values the five components then have.
UpdateDashboard ==
    /\ pc = "idle"
    /\ \E p \in ProvinceInputs, m \in MagInputs, y \in YearsInputs,
          s \in StartYearInputs, e \in EndYearInputs :
            Call("update_dashboard", p, m, y, s, e)

\* download_filtered_data on a click of the download button (n_clicks >= 1),
\* with the values the five components have as State.
DownloadFilteredData ==
    /\ pc = "idle"
    /\ \E p \in ProvinceInputs, m \in MagInputs, y \in YearsInputs,
          s \in StartYearInputs, e \in EndYearInputs :
            Call("download_filtered_data", p, m, y, s, e)

\* The callback returns (or its exception reaches the framework) and the
\* request ends: the call's arguments and locals are gone.
Respond ==
    /\ pc # "idle"
    /\ pc' = "idle"
    /\ provinces_input' = None
    /\ mag_range' = None
    /\ years' = None
    /\ start_year' = NoneInt
    /\ end_year' = NoneInt
    /\ filtered' = NotCalled
    /\ output' = NoOutput
    /\ article_call' = NoArticleCall
    /\ UNCHANGED <<df, tieRank>>
    /\ UNCHANGED startup_vars
    /\ UNCHANGED articles
    /\ map_view' = NoMapView
    /\ analysis_call' = NoAnalysisCall
    /\ UNCHANGED <<evacuation_data, posko>>

Next ==
    \/ InitialLoad
    \/ UpdateDashboard
    \/ DownloadFilteredData
    \/ Respond

Spec == Init /\ [][Next]_vars

\* ------------------------------------------- the other pages' interactions
filter_vars == <<provinces_input, mag_range, years, start_year, end_year,
                 filtered>>

\* article_feedback
Feedback(c) ==
    IF ~c.triggered THEN ""
    ELSE IF StrTruthy(c.title) /\ StrTruthy(c.url) THEN "berhasil ditambahkan"
    ELSE "Mohon isi minimal judul dan URL artikel"

\* manage_articles that binds the list to the seeds on every invocation.
ManageArticlesReseeding ==
    /\ phase = "ready"
    /\ pc = "idle"
    /\ \E g \in BOOLEAN, t \in TitleInputs, u \in UrlInputs,
          i \in ImageInputs, d \in DescriptionInputs :
          LET c == [triggered |-> g, title |-> t, url |-> u, image_url |-> i,
                    description |-> d]
          IN  /\ articles' = Some(IF Appends(c)
                                  THEN Append(SeedArticles, NewArticle(c))
                                  ELSE SeedArticles)
              /\ article_call' = c
              /\ output' = [kind |-> "articles", total |-> Len(articles'.v),
                            rows |-> articles'.v, feedback |-> Feedback(c)]
    /\ pc' = "manage_articles"
    /\ UNCHANGED <<df, tieRank>>
    /\ UNCHANGED startup_vars
    /\ UNCHANGED filter_vars
    /\ UNCHANGED pages_vars

\* manage_articles(n_clicks, title, url, image_url, description), invoked by
\* a click of the add button (triggered) or by the rendering of its page.
\* The list is kept within MaxArticles additions.
ManageArticles ==
    /\ phase = "ready"
    /\ pc = "idle"
    /\ \E g \in BOOLEAN, t \in TitleInputs, u \in UrlInputs,
          i \in ImageInputs, d \in DescriptionInputs :
          LET c == [triggered |-> g, title |-> t, url |-> u, image_url |-> i,
                    description |-> d]
          IN  /\ Appends(c) => Len(Seeded) < Len(SeedArticles) + MaxArticles
              /\ articles' = Some(IF Appends(c)
                                  THEN Append(Seeded, NewArticle(c))
                                  ELSE Seeded)
              /\ article_call' = c
              /\ output' = [kind |-> "articles", total |-> Len(articles'.v),
                            rows |-> articles'.v, feedback |-> Feedback(c)]
    /\ pc' = "manage_articles"
    /\ UNCHANGED <<df, tieRank>>
    /\ UNCHANGED startup_vars
    /\ UNCHANGED filter_vars
    /\ UNCHANGED pages_vars

Pathnames == {"/", "/overview", "/analysis", "/regional", "/settings", "/help",
              "/nowhere"}

\* display_page(pathname): the page layout returned.
PageOf(pathname) ==
    IF pathname \in {"/", "/overview"} THEN "overview_page"
    ELSE IF pathname = "/analysis" THEN "analysis_page"
    ELSE IF pathname = "/regional" THEN "regional_page"
    ELSE IF pathname = "/settings" THEN "settings_page"
    ELSE IF pathname = "/help" THEN "help_page"
    ELSE "404"

\* display_page on a change of the URL (page navigation).
DisplayPage ==
    /\ phase = "ready"
    /\ pc = "idle"
    /\ \E pathname \in Pathnames :
          output' = [kind |-> "page", total |-> 0, rows |-> <<>>,
                     page |-> PageOf(pathname)]
    /\ pc' = "display_page"
    /\ UNCHANGED <<df, tieRank, articles, article_call>>
    /\ UNCHANGED startup_vars
    /\ UNCHANGED filter_vars
    /\ UNCHANGED pages_vars

\* ------------------------------------------------- update_analysis_page
\* The values of the cluster dropdown the callback is invoked with.
ClusterInputs == {NoneInt, Some(0), Some(1)}

\* df["cluster"] >= 0 (False for NaN)
InCluster(c) == ~IsNa(c) /\ c >= 0

RECURSIVE SortedClusters(_)
\* sorted(df.loc[df["cluster"] >= 0, "cluster"].unique())
SortedClusters(S) ==
    IF S = {} THEN <<>>
    ELSE <<SetMin(S)>> \o SortedClusters(S \ {SetMin(S)})

\* What update_analysis_page(selected_cluster, pathname) returns: its five
\* outputs (the colour column of the scatter plot, len(df_map) of the
\* statistics, the dropdown's options), or the exception that leaves it.
AnalysisOutput(selected_cluster, pathname) ==
    IF pathname # "/analysis"
    THEN [kind |-> "analysis", total |-> 0, rows |-> <<>>, outputs |-> 5,
          color |-> "", options |-> <<>>]
    ELSE IF has_clusters = "unbound" THEN Raised
    ELSE LET df_map == IF selected_cluster.some
                       THEN {i \in Rows : df[i].cluster = selected_cluster.v}
                       ELSE {i \in Rows : InCluster(df[i].cluster)}
         IN  [kind |-> "analysis", total |-> Cardinality(df_map),
              rows |-> <<>>, outputs |-> 5,
              color |-> IF has_clusters = "True" THEN "cluster" ELSE "province",
              options |-> SortedClusters({df[i].cluster : i \in
                              {j \in Rows : InCluster(df[j].cluster)}})]

\* update_analysis_page on a change of the location or of the dropdown.
UpdateAnalysisPage ==
    /\ phase = "ready"
    /\ pc = "idle"
    /\ \E c \in ClusterInputs, pathname \in Pathnames :
        /\ analysis_call' = [pathname |-> pathname, selected_cluster |-> c]
        /\ output' = AnalysisOutput(c, pathname)
    /\ pc' = "update_analysis_page"
    /\ UNCHANGED <<df, tieRank, articles, article_call>>
    /\ UNCHANGED startup_vars
    /\ UNCHANGED filter_vars
    /\ UNCHANGED <<map_view, evacuation_data, posko>>

\* The server on the dummy frame, with the interactions of every page.
InitInteract == Init /\ df = DummyData

NextInteract ==
    \/ InitialLoad
    \/ UpdateDashboard
    \/ DownloadFilteredData
    \/ ManageArticles
    \/ DisplayPage
    \/ UpdateAnalysisPage
    \/ Respond

SpecInteract == InitInteract /\ [][NextInteract]_vars

\* The page with the article list alone.
NextArticles ==
    \/ ManageArticles
    \/ DisplayPage
    \/ Respond

SpecArticles == InitInteract /\ [][NextArticles]_vars

\* ----------------------------------------------------------------- startup
\* The state when the interpreter starts to execute the module.
InitStartup ==
    /\ phase = "load_data"
    /\ files \in [combined : CombinedFiles, clusters : BOOLEAN,
                  worldcities : WorldCitiesFiles]
    /\ has_clusters = "unbound"
    /\ tree_queries = 0
    /\ treeTie \in {"low", "high"}
    /\ df = <<>>
    /\ tieRank = <<>>
    /\ pc = "idle"
    /\ provinces_input = None
    /\ mag_range = None
    /\ years = None
    /\ start_year = NoneInt
    /\ end_year = NoneInt
    /\ filtered = NotCalled
    /\ map_view = NoMapView
    /\ analysis_call = NoAnalysisCall
    /\ evacuation_data = None
    /\ posko = [t \in Threads |-> NoRequest]
    /\ output = NoOutput
    /\ articles = None
    /\ article_call = NoArticleCall

serving_vars == <<pc, provinces_input, mag_range, years, start_year, end_year,
                  filtered, output>>

\* LoadData without the except clause: the FileNotFoundError ends the import.
LoadDataWithoutDummy ==
    /\ phase = "load_data"
    /\ IF files.combined.some
       THEN /\ df' = files.combined.v
            /\ phase' = "load_clusters"
       ELSE /\ df' = df
            /\ phase' = "aborted"
    /\ \E r \in TieRanks(df') : tieRank' = r
    /\ UNCHANGED <<files, has_clusters, tree_queries, treeTie>>
    /\ UNCHANGED serving_vars
    /\ UNCHANGED panel_vars
    /\ UNCHANGED pages_vars

\* Lines 16-29: read combined.csv, or build the dummy frame when the file is
\* missing.
LoadData ==
    /\ phase = "load_data"
    /\ df' = IF files.combined.some THEN files.combined.v ELSE DummyRaw
    /\ \E r \in TieRanks(df') : tieRank' = r
    /\ phase' = "load_clusters"
    /\ UNCHANGED <<files, has_clusters, tree_queries, treeTie>>
    /\ UNCHANGED serving_vars
    /\ UNCHANGED panel_vars
    /\ UNCHANGED pages_vars

\* The rows of data/best_df_indonesia_cluster.xlsx when the file exists: its
\* keys (time, latitude, longitude) are unique, and they cover some rows of
\* combined.csv and of the dummy frame and leave the others out.
df_clustered ==
    << [time |-> 20200101, latitude |-> 0, longitude |-> 1095000, cluster |-> 0],
       [time |-> 20210101, latitude |-> 0, longitude |-> 1103400, cluster |-> 1],
       [time |-> 20251015, latitude |-> -62088, longitude |-> 1068456, cluster |-> 1],
       [time |-> 20190101, latitude |-> -10000, longitude |-> 1000000, cluster |-> 2] >>

\* r with the column cluster added.
WithCluster(r, c) ==
    [f \in DOMAIN r \cup {"cluster"} |-> IF f = "cluster" THEN c ELSE r[f]]

\* df.merge(df_clustered[...], on=['time', 'latitude', 'longitude'],
\* how='left'): the cluster of the row of df_clustered with the same key, NaN
\* when there is none.  (The keys being unique, the merge adds no row.)
MergeCluster(r) ==
    LET m == {k \in DOMAIN df_clustered :
                /\ df_clustered[k].time = r.time
                /\ df_clustered[k].latitude = r.latitude
                /\ df_clustered[k].longitude = r.longitude}
    IN  IF m = {} THEN NaN ELSE df_clustered[SetMin(m)].cluster

\* Lines 32-48: read the clustering file, merge its cluster column into df
\* and bind has_clusters; when the file is missing every row gets cluster -1
\* and has_clusters is left unbound.
LoadClusters ==
    /\ phase = "load_clusters"
    /\ IF files.clusters
       THEN /\ df' = [i \in Rows |-> WithCluster(df[i], MergeCluster(df[i]))]
            /\ has_clusters' = "True"
       ELSE /\ df' = [i \in Rows |-> WithCluster(df[i], -1)]
            /\ has_clusters' = has_clusters
    /\ phase' = "classify"
    /\ UNCHANGED <<files, tree_queries, treeTie, tieRank>>
    /\ UNCHANGED serving_vars
    /\ UNCHANGED panel_vars
    /\ UNCHANGED pages_vars

\* ClassifyProvinces without the except clause.
ClassifyWithoutFallback ==
    /\ phase = "classify"
    /\ IF files.worldcities.some
       THEN /\ df' = [i \in Rows |->
                        WithProvince(df[i],
                            detect_province_fast(df[i].latitude,
                                                 df[i].longitude).label)]
            /\ tree_queries' = tree_queries + Cardinality({i \in Rows :
                    detect_province_fast(df[i].latitude,
                                         df[i].longitude).queried})
            /\ phase' = "precalc"
       ELSE /\ df' = df
            /\ tree_queries' = tree_queries
            /\ phase' = "aborted"
    /\ UNCHANGED <<files, has_clusters, treeTie, tieRank>>
    /\ UNCHANGED serving_vars
    /\ UNCHANGED panel_vars
    /\ UNCHANGED pages_vars

\* Lines 51-74: classify every row with detect_province_fast, or with the
\* fallback when worldcities.csv is missing.
ClassifyProvinces ==
    /\ phase = "classify"
    /\ IF files.worldcities.some
       THEN /\ df' = [i \in Rows |->
                        WithProvince(df[i],
                            detect_province_fast(df[i].latitude,
                                                 df[i].longitude).label)]
            /\ tree_queries' = tree_queries + Cardinality({i \in Rows :
                    detect_province_fast(df[i].latitude,
                                         df[i].longitude).queried})
       ELSE /\ df' = [i \in Rows |->
                        WithProvince(df[i],
                            detect_province_fast_fallback(df[i].latitude,
                                                          df[i].longitude))]
            /\ tree_queries' = tree_queries
    /\ phase' = "precalc"
    /\ UNCHANGED <<files, has_clusters, treeTie, tieRank>>
    /\ UNCHANGED serving_vars
    /\ UNCHANGED panel_vars
    /\ UNCHANGED pages_vars

\* Lines 76-88: the constants computed from df (the operators of the
\* pre-calculation section, df being final from here on); the layout and the
\* callbacks are then defined and the server starts.
Precalculate ==
    /\ phase = "precalc"
    /\ phase' = "ready"
    /\ UNCHANGED <<files, has_clusters, tree_queries, treeTie, df, tieRank>>
    /\ UNCHANGED serving_vars
    /\ UNCHANGED panel_vars
    /\ UNCHANGED pages_vars

NextStartup ==
    \/ LoadData
    \/ LoadClusters
    \/ ClassifyProvinces
    \/ Precalculate
    \/ InitialLoad
    \/ UpdateAnalysisPage
    \/ Respond

SpecStartup == InitStartup /\ [][NextStartup]_vars

\* ------------------------------------------- update_dashboard's map view
\* The most groups of equal records a filtered frame is made of.
MaxGroups == 2

\* center_lat, center_lon: the fixed centre of Indonesia, in 1/10000 degree.
center_lat == -25489

center_lon == 1180149

\* The filtered frames the view is computed for: up to MaxGroups groups of
\* count records at one position.  The counts reach every threshold of the
\* zoom table from both sides (20 and 20+1, 100 and 100+1, 500 and 500+1).
GroupDom ==
    { [latitude |-> p[1], longitude |-> p[2], count |-> c] :
        p \in {<<-75000, 1100000>>, <<-20000, 1200000>>},
        c \in {1, 20, 100, 500} }

FilteredFrames == {<<>>} \cup SeqsUpTo(GroupDom, MaxGroups)

\* ctx.triggered[0]["prop_id"].split(".")[0] if ctx.triggered else None: the
\* first page load, or one of the callback's seven Inputs.
FilterInputIds ==
    {"province-filter", "mag-filter", "year-filter", "start-year", "end-year"}

TriggeredIds ==
    {NoneStr} \cup {Some(i) : i \in FilterInputIds \cup {"map-graph", "reset-view"}}

\* clickData: None before the first click, then the dict of the last click
\* (it stays while other inputs trigger the callback).
ClickInputs == {NoClick, Some([lat |-> -82000, lon |-> 1150000])}

RECURSIVE SumOver(_, _)
SumOver(g, f) ==
    IF g = <<>> THEN 0
    ELSE f[Head(g)] + SumOver(Tail(g), f)

\* total_quakes = len(dff)
total_quakes(g) == SumOver(g, [r \in Range(g) |-> r.count])

\* dff[col].mean(), to 1/10000 degree
DataCenter(g, col) ==
    SumOver(g, [r \in Range(g) |-> r[col] * r.count]) \div total_quakes(g)

\* The zoom table with >= for >.
ZoomAtThreshold(n) ==
    IF n >= 500 THEN 40
    ELSE IF n >= 100 THEN 50
    ELSE IF n >= 20 THEN 60
    ELSE 70

\* zoom_level_data, in tenths
zoom_level_data(n) ==
    IF n > 500 THEN 40
    ELSE IF n > 100 THEN 50
    ELSE IF n > 20 THEN 60
    ELSE 70

\* MAP VIEW LOGIC: lat_center_view, lon_center_view, zoom_level (in tenths)
MapViewLogic(g, triggered_id, clickData) ==
    LET default == [lat |-> center_lat, lon |-> center_lon, zoom |-> 35]
    IN  IF g = <<>> THEN default
        ELSE IF triggered_id = Some("map-graph") /\ clickData.some
        THEN [lat |-> clickData.v.lat, lon |-> clickData.v.lon, zoom |-> 75]
        ELSE IF triggered_id = Some("reset-view")
        THEN [lat |-> DataCenter(g, "latitude"),
              lon |-> DataCenter(g, "longitude"),
              zoom |-> zoom_level_data(total_quakes(g))]
        ELSE IF (triggered_id.some /\ triggered_id.v \in FilterInputIds)
                \/ ~triggered_id.some
        THEN [lat |-> DataCenter(g, "latitude"),
              lon |-> DataCenter(g, "longitude"),
              zoom |-> zoom_level_data(total_quakes(g))]
        ELSE default

\* update_dashboard from its filtered frame on: the view of the map it
\* returns.  A trigger by the map comes with the clickData of that click.
UpdateMapView ==
    /\ phase = "ready"
    /\ pc = "idle"
    /\ \E g \in FilteredFrames, t \in TriggeredIds, c \in ClickInputs :
        /\ t = Some("map-graph") => c.some
        /\ map_view' = [groups |-> g, triggered_id |-> t, clickData |-> c] @@
                       MapViewLogic(g, t, c)
    /\ pc' = "map_view"
    /\ UNCHANGED <<df, tieRank, analysis_call, evacuation_data, posko>>
    /\ UNCHANGED startup_vars
    /\ UNCHANGED filter_vars
    /\ UNCHANGED <<output, articles, article_call>>

NextMapView ==
    \/ UpdateMapView
    \/ Respond

SpecMapView == InitInteract /\ [][NextMapView]_vars

\* ------------------------------------------------- update_evacuation_map
\* The most posts added to the evacuation list.
MaxPosts == 2

\* The five posts evacuation_data is initialised with (coordinates in
\* 1/10000 degree).
SeedPosts ==
    << [name |-> "SDN Surabaya 1", lat |-> -72575, lon |-> 1127521,
        address |-> "Jl. Diponegoro No. 123"],
       [name |-> "GOR Kertajaya", lat |-> -72875, lon |-> 1127417,
        address |-> "Jl. Kertajaya No. 45"],
       [name |-> "Masjid Al-Akbar", lat |-> -73305, lon |-> 1127277,
        address |-> "Jl. Raya Masjid No. 1"],
       [name |-> "Lapangan Manahan", lat |-> -72658, lon |-> 1127378,
        address |-> "Jl. Ahmad Yani No. 88"],
       [name |-> "Balai Kota Surabaya", lat |-> -72697, lon |-> 1127508,
        address |-> "Jl. Taman Surya No. 1"] >>

\* A link is the sequence of the pieces of its text: the separators "@",
\* "?q=" and "," and the texts between them.
\* float(text): the number a text is the numeral of (in 1/10000 degree), or
\* the ValueError for any other text.
Numerals == {"-7.25", "112.75", "0.0", "0"}

FloatOf(text) ==
    IF text = "-7.25" THEN -72500
    ELSE IF text = "112.75" THEN 1127500
    ELSE 0

\* The links the name and link inputs are submitted with: None, "", the two
\* formats of a place in Surabaya, a place on the equator, a place on the
\* prime meridian, a short link without coordinates, a place name after "@",
\* a "?q=" link with a further parameter, and a "?q=" link with an "@" before
\* it.
LinkInputs ==
    { None,
      Some(<<>>),
      Some(<<"https://www.google.com/maps/place/Posko/", "@", "-7.25", ",",
             "112.75", ",", "15z">>),
      Some(<<"https://maps.google.com/", "?q=", "-7.25", ",", "112.75">>),
      Some(<<"https://maps.google.com/", "?q=", "0.0", ",", "112.75">>),
      Some(<<"https://www.google.com/maps/", "@", "-7.25", ",", "0", ",",
             "15z">>),
      Some(<<"https://goo.gl/maps/abc">>),
      Some(<<"https://www.google.com/maps/", "@", "Surabaya">>),
      Some(<<"https://maps.google.com/", "?q=", "-7.25", ",", "112.75",
             "&z=15">>),
      Some(<<"https://user", "@", "maps.google.com/", "?q=", "-7.25", ",",
             "112.75">>) }

PoskoNames == {NoneStr, Some(""), Some("Posko A"), Some("Posko B")}

\* The position of the first piece equal to sep.
FirstIndex(s, sep) == SetMin({i \in DOMAIN s : s[i] = sep})

RECURSIVE Split(_, _)
\* s.split(sep): the texts between the separators.
Split(s, sep) ==
    IF sep \notin Range(s) THEN <<s>>
    ELSE <<SubSeq(s, 1, FirstIndex(s, sep) - 1)>>
            \o Split(SubSeq(s, FirstIndex(s, sep) + 1, Len(s)), sep)

\* (None, None)
NoCoordinates == [some |-> FALSE, lat |-> 0, lon |-> 0]

\* float(coords[0]), float(coords[1]) of coords = text.split(',')[:2]: the
\* pair, or (None, None) by the except clause when there is no second text
\* (IndexError) or a text is not a numeral (ValueError).
ParsePair(text) ==
    LET coords == Split(text, ",")
    IN  IF /\ Len(coords) >= 2
           /\ Len(coords[1]) = 1 /\ coords[1][1] \in Numerals
           /\ Len(coords[2]) = 1 /\ coords[2][1] \in Numerals
        THEN [some |-> TRUE, lat |-> FloatOf(coords[1][1]),
              lon |-> FloatOf(coords[2][1])]
        ELSE NoCoordinates

\* extract_coordinates_from_gmaps(url)
extract_coordinates_from_gmaps(url) ==
    IF "@" \in Range(url) THEN ParsePair(Split(url, "@")[2])
    ELSE IF "?q=" \in Range(url) THEN ParsePair(Split(url, "?q=")[2])
    ELSE NoCoordinates

\* NameAndLink without the test of the name.
LinkWithoutName(c) ==
    c.triggered /\ Truthy(c.gmaps_link)

\* ctx.triggered and prop_id == "add-posko-btn.n_clicks", name and gmaps_link
NameAndLink(c) ==
    c.triggered /\ StrTruthy(c.name) /\ Truthy(c.gmaps_link)

\* if lat and lon: None and 0.0 are falsy.
LatAndLon(c) ==
    LET p == extract_coordinates_from_gmaps(c.gmaps_link.v)
    IN  p.some /\ p.lat # 0 /\ p.lon # 0

\* new_posko
NewPosko(c) ==
    LET p == extract_coordinates_from_gmaps(c.gmaps_link.v)
    IN  [name |-> c.name.v, lat |-> p.lat, lon |-> p.lon,
         address |-> "Dari Google Maps"]

\* The request of thread t arrives and evaluates
\* 'evacuation_data' not in globals().
BeginRequest(t, g, n, l) ==
    /\ phase = "ready"
    /\ posko[t].pc = "idle"
    /\ evacuation_data.some =>
            Len(evacuation_data.v) < Len(SeedPosts) + MaxPosts
    /\ posko' = [posko EXCEPT ![t] =
                    [NoRequest EXCEPT
                        !.pc = IF evacuation_data.some THEN "handle" ELSE "seed",
                        !.triggered = g, !.name = n, !.gmaps_link = l]]
    /\ UNCHANGED evacuation_data

\* update_evacuation_map on the page load (not triggered) or a click of the
\* add button, with the values of the two inputs as State.
UpdateEvacuationMap(t) ==
    \E g \in BOOLEAN, n \in PoskoNames, l \in LinkInputs :
        BeginRequest(t, g, n, l)

\* A click of the add button with a name and a link with coordinates.
AddPosko(t) ==
    \E n \in {Some("Posko A"), Some("Posko B")} :
        BeginRequest(t, TRUE, n,
            Some(<<"https://maps.google.com/", "?q=", "-7.25", ",", "112.75">>))

\* evacuation_data = pd.DataFrame({...}): the global is bound to the seeds.
SeedEvacuationData(t) ==
    /\ posko[t].pc = "seed"
    /\ evacuation_data' = Some(SeedPosts)
    /\ posko' = [posko EXCEPT ![t].pc = "handle"]

\* SavePosko that appends to the seeds.
SavePoskoToSeeds(t) ==
    /\ posko[t].pc = "store"
    /\ evacuation_data' = Some(Append(SeedPosts, NewPosko(posko[t])))
    /\ posko' = [posko EXCEPT ![t].pc = "render",
                              ![t].feedback = "berhasil ditambahkan",
                              ![t].feedback_class = "small mt-2 text-success"]

\* Lines 1000-1017: the tests of the trigger, of the two inputs and of the
\* coordinates, up to the evaluation of pd.concat's arguments, which reads
\* the global.
ValidatePosko(t) ==
    /\ posko[t].pc = "handle"
    /\ posko' = [posko EXCEPT ![t] =
            IF ~posko[t].triggered
            THEN [@ EXCEPT !.pc = "render", !.feedback_class = "small mt-2"]
            ELSE IF ~NameAndLink(posko[t])
            THEN [@ EXCEPT !.pc = "render",
                           !.feedback = "Mohon isi nama dan link Google Maps",
                           !.feedback_class = "small mt-2 text-danger"]
            ELSE IF ~LatAndLon(posko[t])
            THEN [@ EXCEPT !.pc = "render",
                           !.feedback = "Link Google Maps tidak valid",
                           !.feedback_class = "small mt-2 text-warning"]
            ELSE [@ EXCEPT !.pc = "store", !.snapshot = evacuation_data.v]]
    /\ UNCHANGED evacuation_data

\* Lines 1017-1019: the result of pd.concat is assigned to the global and the
\* feedback is the success message.
SavePosko(t) ==
    /\ posko[t].pc = "store"
    /\ evacuation_data' = Some(Append(posko[t].snapshot, NewPosko(posko[t])))
    /\ posko' = [posko EXCEPT ![t].pc = "render",
                              ![t].feedback = "berhasil ditambahkan",
                              ![t].feedback_class = "small mt-2 text-success"]

\* Lines 1027-1055: the map and the list are built from the global.
RenderPosko(t) ==
    /\ posko[t].pc = "render"
    /\ posko' = [posko EXCEPT ![t].pc = "return",
                              ![t].posko_list = evacuation_data.v]
    /\ UNCHANGED evacuation_data

\* return fig, posko_list, feedback, feedback_class
ReturnPosko(t) ==
    /\ posko[t].pc = "return"
    /\ posko' = [posko EXCEPT ![t] = NoRequest]
    /\ UNCHANGED evacuation_data

\* What no step of update_evacuation_map touches.
rest_vars == <<phase, files, has_clusters, tree_queries, treeTie, df, tieRank,
               pc, provinces_input, mag_range, years, start_year, end_year,
               filtered, output, articles, article_call, map_view,
               analysis_call>>

\* One request at a time.
NextPosko ==
    \/ UpdateEvacuationMap(1) /\ UNCHANGED rest_vars
    \/ SeedEvacuationData(1) /\ UNCHANGED rest_vars
    \/ ValidatePosko(1) /\ UNCHANGED rest_vars
    \/ SavePosko(1) /\ UNCHANGED rest_vars
    \/ RenderPosko(1) /\ UNCHANGED rest_vars
    \/ ReturnPosko(1) /\ UNCHANGED rest_vars

SpecPosko == InitInteract /\ [][NextPosko]_vars

\* Two add requests served by two threads of the server.
NextPoskoThreads ==
    \E t \in Threads :
        \/ AddPosko(t) /\ UNCHANGED rest_vars
        \/ SeedEvacuationData(t) /\ UNCHANGED rest_vars
        \/ ValidatePosko(t) /\ UNCHANGED rest_vars
        \/ SavePosko(t) /\ UNCHANGED rest_vars
        \/ RenderPosko(t) /\ UNCHANGED rest_vars
        \/ ReturnPosko(t) /\ UNCHANGED rest_vars

SpecPoskoThreads == InitInteract /\ [][NextPoskoThreads]_vars

\* ------------------------------------------------------------------ claims
\* A callback is at the point where its call of filter_data ended.
Called == pc \in {"update_dashboard", "download_filtered_data"}

\* ... and filter_data returned to it.
Returned == Called /\ filtered.raised = "none"

RowsWithYearIn(S) == {i \in Rows : all_years[i] \in S}

DefaultWindowRows == RowsWithYearIn((max_year_data - 4)..max_year_data)

InObservedRange(y) == y.some /\ min_year_data <= y.v /\ y.v <= max_year_data

\* C1: with a non-empty year list the rows admitted by year are exactly the
\* rows whose year is in the list, and the same rows for every start_year and
\* end_year (valid, invalid or None) the call could have been given instead.
C1_YearSetPrecedence ==
    (Called /\ Truthy(years)) =>
        /\ filtered.year_filter = RowsWithYearIn(Range(years.v))
        /\ \A s \in StartYearInputs, e \in EndYearInputs :
              YearFilter(years, s, e) = filtered.year_filter

\* C1 witness: a call with a year list and a valid range that admits other
\* rows than the list does.
C1_Witness ==
    /\ Returned
    /\ Truthy(years)
    /\ has_valid_range(start_year, end_year)
    /\ {i \in Rows : Between(all_years[i], start_year.v, end_year.v)}
          # filtered.year_filter

\* C2 (as claimed): a year list with no year of the data makes the filter fall
\* back to the default window.
C2_Original ==
    (Returned /\ Truthy(years) /\ Range(years.v) \cap Range(all_years) = {}) =>
        filtered.year_filter = DefaultWindowRows

\* C3 (as claimed): without a year list, an interval with both bounds inside
\* the observed year range is used after auto-swap.
C3_Original ==
    (Returned /\ ~Truthy(years) /\ InObservedRange(start_year)
              /\ InObservedRange(end_year)) =>
        filtered.year_filter =
            RowsWithYearIn(SetMin({start_year.v, end_year.v})
                             .. SetMax({start_year.v, end_year.v}))

\* C4: without a year list and with an interval that is absent or has a bound
\* that is None or outside the observed year range, the rows admitted by year
\* are exactly those with year in [maxYear-4, maxYear]; on the dummy data
\* (years 2023, 2024, 2025) with years=[], start=None, end=None the admitted
\* years are exactly 2023..2025.
C4_DefaultWindow ==
    /\ (Called /\ ~Truthy(years)
          /\ ~(InObservedRange(start_year) /\ InObservedRange(end_year))) =>
            filtered.year_filter = DefaultWindowRows
    /\ (Called /\ df = DummyData /\ years = Some(<<>>)
          /\ ~start_year.some /\ ~end_year.some) =>
            {all_years[i] : i \in filtered.year_filter} = {2023, 2024, 2025}

\* C4 witness: such a call, with a bound above the observed range, on data
\* with a row older than the window.
C4_Witness ==
    /\ Returned
    /\ ~Truthy(years)
    /\ start_year.some /\ end_year.some
    /\ end_year.v > max_year_data
    /\ filtered.year_filter # Rows
    /\ filtered.year_filter # {}

\* C5: an empty or None province selection is resolved to the single most
\* frequent non-sentinel province of the data set when a row has one, and to
\* all provinces present otherwise; a non-empty selection is returned as is.
C5_ProvinceDefault ==
    Returned =>
        IF Truthy(provinces_input)
        THEN filtered.provinces = provinces_input.v
        ELSE IF \E i \in Rows : df[i].province # Sentinel
        THEN /\ Len(filtered.provinces) = 1
             /\ filtered.provinces[1] # Sentinel
             /\ \A i \in Rows :
                    df[i].province # Sentinel =>
                        Count(filtered.provinces[1]) >= Count(df[i].province)
        ELSE Range(filtered.provinces) = {df[i].province : i \in Rows}

\* C5 witness: a None selection on data whose most frequent province overall
\* is the sentinel and which has rows of another province.
C5_Witness ==
    /\ Returned
    /\ ~provinces_input.some
    /\ \E i \in Rows : df[i].province # Sentinel
    /\ \E i \in Rows : Count(Sentinel) > Count(df[i].province)

\* C6 (as claimed): an inverted magnitude range [a, b], a > b, admits what
\* [b, a] admits.
C6_Original ==
    (Returned /\ Len(mag_range.v) = 2 /\ mag_range.v[1] > mag_range.v[2]) =>
        filtered = FilterData(provinces_input,
                              Some(<<mag_range.v[2], mag_range.v[1]>>),
                              years, start_year, end_year)

Clamp(x) ==
    IF x < min_mag_data THEN min_mag_data
    ELSE IF x > max_mag_data THEN max_mag_data
    ELSE x

\* C7 (as claimed): the magnitude bounds are clamped into the data's
\* [global min, global max] (and swapped if inverted) before filtering, so
\* that [10, 2] on data with range [3.5, 7.0] admits every row by magnitude.
C7_Original ==
    (Returned /\ Len(mag_range.v) = 2) =>
        LET a  == Clamp(mag_range.v[1])
            b  == Clamp(mag_range.v[2])
            lo == IF a > b THEN b ELSE a
            hi == IF a > b THEN a ELSE b
        IN  Range(filtered.dff) =
                {i \in Rows : /\ Between(df[i].magnitude, lo, hi)
                              /\ i \in filtered.year_filter
                              /\ df[i].province \in Range(filtered.provinces)}

\* C8 (as claimed): a magnitude range that is None or not of length 2 makes
\* the filter use [global min, global max] and return a result.
C8_Original ==
    (Called /\ (~mag_range.some \/ Len(mag_range.v) # 2)) =>
        /\ filtered.raised = "none"
        /\ Range(filtered.dff) =
              {i \in Rows : /\ i \in filtered.year_filter
                            /\ df[i].province \in Range(filtered.provinces)}

\* C9 (as claimed): an exception raised inside filter_data does not reach the
\* callback, which receives the whole data set and all provinces.
C9_Original ==
    (Called /\ MagRaises(mag_range) # "none") =>
        /\ filtered.raised = "none"
        /\ Range(filtered.dff) = Rows
        /\ Range(filtered.provinces) = {df[i].province : i \in Rows}

\* C10: the returned view holds exactly the rows of df that satisfy the
\* magnitude, year and province predicates together, each once, ordered by
\* timestamp descending.
C10_ViewIsConjunction ==
    Returned =>
        /\ Range(filtered.dff) =
              {i \in Rows :
                  /\ df[i].magnitude >= mag_range.v[1]
                  /\ df[i].magnitude <= mag_range.v[2]
                  /\ i \in filtered.year_filter
                  /\ df[i].province \in Range(filtered.provinces)}
        /\ Len(filtered.dff) = Cardinality(Range(filtered.dff))
        /\ \A k \in 1..(Len(filtered.dff) - 1) :
              df[filtered.dff[k]].time >= df[filtered.dff[k + 1]].time

\* C10 witness: a view of two or more rows with different timestamps, not in
\* the order of df, from a call whose year predicate rejects a row.
C10_Witness ==
    /\ Returned
    /\ Len(filtered.dff) >= 2
    /\ \E k \in 1..(Len(filtered.dff) - 1) :
          /\ filtered.dff[k] > filtered.dff[k + 1]
          /\ df[filtered.dff[k]].time > df[filtered.dff[k + 1]].time
    /\ \E i \in Rows : i \notin filtered.year_filter

\* C11 (as claimed): applying the filter again with the same criteria gives
\* the same rows in the same order, and rows with equal timestamps appear in
\* the view in their order in df.
C11_Original ==
    Returned =>
        /\ FilterData(provinces_input, mag_range, years, start_year, end_year)
              = filtered
        /\ \A k \in 1..(Len(filtered.dff) - 1) :
              df[filtered.dff[k]].time = df[filtered.dff[k + 1]].time =>
                  filtered.dff[k] < filtered.dff[k + 1]

\* ------------------------------------------------- claims on the classifier
\* Startup has classified df.
Classified == phase \in {"precalc", "ready"}

\* ... with detect_province_fast (worldcities.csv was there).
ByTree == Classified /\ files.worldcities.some

\* ... with the fallback.
ByFallback == Classified /\ ~files.worldcities.some

HasCoordinates(i) == ~IsNa(df[i].latitude) /\ ~IsNa(df[i].longitude)

\* The squared distance in km from row i to a city.
RowSqKm(i, c) == SqKm(df[i].latitude, df[i].longitude, c.lat, c.lng)

\* The Indonesian cities nearest to row i.
NearestCities(i) ==
    {c \in Range(indo) : \A b \in Range(indo) : RowSqKm(i, c) <= RowSqKm(i, b)}

\* C12 (as claimed): the label of a row is the admin name of the nearest
\* reference city when that city is less than the threshold away and the
\* sentinel otherwise, and it is the admin name of every reference city
\* whose threshold radius the row lies in.
C12_Original ==
    ByTree =>
        \A i \in Rows : HasCoordinates(i) =>
            /\ IF \E c \in Range(indo) : RowSqKm(i, c) < 150 * 150
               THEN \E c \in NearestCities(i) : df[i].province = c.admin_name
               ELSE df[i].province = Sentinel
            /\ \A c \in Range(indo) :
                  RowSqKm(i, c) < 150 * 150 => df[i].province = c.admin_name

\* C12: the label of a row with coordinates is the admin name, without the
\* word "Province" and outer blanks, of a nearest Indonesian city when that
\* city is less than 150 km away, and the sentinel when it is 150 km away or
\* more.
C12_NearestWithinThreshold ==
    ByTree =>
        \A i \in Rows : HasCoordinates(i) =>
            IF \E c \in Range(indo) : RowSqKm(i, c) < 150 * 150
            THEN \E c \in NearestCities(i) :
                    df[i].province = StripProvince(c.admin_name)
            ELSE df[i].province = Sentinel

\* C12 witness: a frame with a row whose nearest city is exactly 150 km away
\* and a row whose nearest city is nearer than that.
C12_Witness ==
    /\ ByTree
    /\ \E i \in Rows :
          /\ HasCoordinates(i)
          /\ \E c \in NearestCities(i) : RowSqKm(i, c) = 150 * 150
          /\ df[i].province = Sentinel
    /\ \E i \in Rows :
          /\ HasCoordinates(i)
          /\ \E c \in NearestCities(i) : RowSqKm(i, c) < 150 * 150
          /\ df[i].province # Sentinel

\* C13: a row with a missing latitude or a missing longitude is labelled with
\* the sentinel, whatever its other coordinate, and tree.query has been
\* called once for each row with both coordinates and for no other row.
C13_MissingCoordinate ==
    /\ Classified =>
          \A i \in Rows : ~HasCoordinates(i) => df[i].province = Sentinel
    /\ ByTree =>
          tree_queries = Cardinality({i \in Rows : HasCoordinates(i)})

\* C13 witness: a classified frame with a row that lacks its latitude and
\* has a longitude 56 km from a city, and a row with both coordinates.
C13_Witness ==
    /\ ByTree
    /\ \E i \in Rows :
          /\ IsNa(df[i].latitude)
          /\ ~IsNa(df[i].longitude)
          /\ \E c \in Range(indo) :
                SqKm(0, df[i].longitude, c.lat, c.lng) < 150 * 150
    /\ \E i \in Rows : HasCoordinates(i)

\* The province names of the reference cities (none when the city table is
\* unavailable).
ProvinceNames ==
    IF files.worldcities.some
    THEN {StripProvince(c.admin_name) : c \in Range(indo)}
    ELSE {}

HasLabel(i) == "province" \in DOMAIN df[i]

CitiesAbroad == {c \in Range(worldcities) : c.country # "Indonesia"}

\* C15: no row is labelled with the province of a city of the table whose
\* country is not "Indonesia"; a label other than the sentinel is the
\* province of a city whose country is "Indonesia".
C15_IndonesianCitiesOnly ==
    ByTree =>
        \A i \in Rows :
            /\ df[i].province \notin
                  {StripProvince(c.admin_name) : c \in CitiesAbroad}
            /\ df[i].province # Sentinel =>
                  \E c \in Range(worldcities) :
                      /\ c.country = "Indonesia"
                      /\ df[i].province = StripProvince(c.admin_name)

\* C15 witness: a classified row whose nearest city of the whole table is
\* abroad and less than 150 km away.
C15_Witness ==
    /\ ByTree
    /\ \E i \in Rows :
          /\ HasCoordinates(i)
          /\ \E a \in CitiesAbroad :
                /\ RowSqKm(i, a) < 150 * 150
                /\ \A c \in Range(worldcities) : RowSqKm(i, a) <= RowSqKm(i, c)

\* C16: when worldcities.csv is missing the import does not end at the
\* province detection (it is never aborted and can always take its next
\* step), no tree is queried, and from the classification on every row has
\* the label the fallback heuristic gives its coordinates.
C16_FallbackOnMissingCities ==
    ~files.worldcities.some =>
        /\ phase # "aborted"
        /\ phase = "classify" => ENABLED ClassifyProvinces
        /\ phase = "precalc" => ENABLED Precalculate
        /\ Classified =>
              /\ tree_queries = 0
              /\ \A i \in Rows :
                    /\ HasLabel(i)
                    /\ df[i].province =
                          detect_province_fast_fallback(df[i].latitude,
                                                        df[i].longitude)

\* C16 witness: startup has ended without the city table, on a frame read
\* from combined.csv with a row in the heuristic's eastern box.
C16_Witness ==
    /\ phase = "ready"
    /\ ~files.worldcities.some
    /\ files.combined.some
    /\ \E i \in Rows : df[i].province = "Sulawesi/Maluku"
    /\ \E i \in Rows : df[i].province = Sentinel

\* Row i of df holds the values of row i of the dummy frame.
IsDummyRow(i) == \A f \in DOMAIN DummyRaw[i] : df[i][f] = DummyRaw[i][f]

\* C17: when combined.csv is missing the import goes on (it is never aborted
\* and the load can take its step) with the five dummy rows as df; every one
\* of them is classified, the pre-computed constants have the values of the
\* dummy rows, and the filter call of the first page load returns a
\* non-empty view of them.
C17_DummyDataOnMissingSource ==
    ~files.combined.some =>
        /\ phase # "aborted"
        /\ phase = "load_data" => ENABLED LoadData
        /\ phase # "load_data" =>
              /\ Len(df) = Len(DummyRaw)
              /\ \A i \in Rows : IsDummyRow(i)
        /\ Classified => \A i \in Rows : HasLabel(i)
        /\ phase = "ready" =>
              /\ min_mag_data = 35 /\ max_mag_data = 70
              /\ min_year_data = 2023 /\ max_year_data = 2025
              /\ default_years_selection = <<2025, 2024, 2023>>
              /\ default_start_year = 2023 /\ default_end_year = 2025
              /\ top_province \in AllProvinces
        /\ Called =>
              /\ filtered.raised = "none"
              /\ Len(filtered.dff) >= 1
              /\ \A k \in DOMAIN filtered.dff :
                    df[filtered.dff[k]].province \in Range(filtered.provinces)

\* C17 witness: the first page load on the dummy frame, classified with the
\* city table, shows two rows of the most frequent province.
C17_Witness ==
    /\ ~files.combined.some
    /\ files.worldcities.some
    /\ pc = "update_dashboard"
    /\ Returned
    /\ top_province # Sentinel
    /\ Len(filtered.dff) = 2

\* ---------------------------------------------------- claims on the callbacks
\* C18: the export of download_filtered_data holds exactly the records that
\* filter_data returns for the callback's five filter values, each with all
\* the columns of df, ordered by time descending, and they are, one by one
\* and in the same order, the records whose rows update_dashboard shows for
\* the same values.
C18_ExportIsTheView ==
    (pc = "download_filtered_data" /\ Returned) =>
        LET fd == FilterData(provinces_input, mag_range, years, start_year,
                             end_year)
            shown == DashboardOutput(fd)
        IN  /\ output.kind = "csv"
            /\ Len(output.rows) = Len(fd.dff)
            /\ \A k \in DOMAIN output.rows :
                  /\ output.rows[k] = df[fd.dff[k]]
                  /\ DOMAIN output.rows[k] = DOMAIN df[fd.dff[k]]
            /\ \A k \in 1..(Len(output.rows) - 1) :
                  output.rows[k].time >= output.rows[k + 1].time
            /\ shown.total = Len(output.rows)
            /\ \A k \in DOMAIN output.rows :
                  shown.rows[k] = DisplayRow(output.rows[k])

\* C18 witness: an export of two or more records with different timestamps
\* that are not in the order of df.
C18_Witness ==
    /\ pc = "download_filtered_data"
    /\ Returned
    /\ Len(output.rows) >= 2
    /\ \E k \in 1..(Len(filtered.dff) - 1) :
          /\ filtered.dff[k] > filtered.dff[k + 1]
          /\ output.rows[k].time > output.rows[k + 1].time

\* C19: no step of a callback (a change of a filter, a map click or reset,
\* which invoke update_dashboard, a download, the adding of an article, a
\* page navigation, or the end of a request) changes df: its rows, their
\* fields and province labels and their number stay as loaded.
C19_FrameIsImmutable == [][df' = df]_vars

\* C19 witness: after an article was added, a download returns a view that
\* leaves rows of df out, and df is still the frame that was loaded.
C19_Witness ==
    /\ articles.some
    /\ Len(articles.v) > Len(SeedArticles)
    /\ pc = "download_filtered_data"
    /\ Returned
    /\ Len(filtered.dff) > 0
    /\ Len(filtered.dff) < Len(df)
    /\ df = DummyData

IsPrefix(a, b) == Len(a) <= Len(b) /\ \A k \in DOMAIN a : b[k] = a[k]

\* A step is an invocation of manage_articles.
Invoked == pc = "idle" /\ pc' = "manage_articles"

\* C20: the list, once bound, starts with the four seed articles; the first
\* invocation of manage_articles binds it to them; an invocation by a click
\* of the add button with a non-empty title and a non-empty URL appends
\* exactly one article, with that title and URL, at the end; any other
\* invocation leaves the list as it was (or as seeded); and no step unbinds
\* the list, shortens it or changes an article in it.
C20_AppendOnly ==
    /\ [](articles.some => IsPrefix(SeedArticles, articles.v))
    /\ [][Invoked =>
            /\ articles'.some
            /\ IF /\ article_call'.triggered
                  /\ article_call'.title.some /\ article_call'.title.v # ""
                  /\ article_call'.url.some /\ article_call'.url.v # ""
               THEN /\ Len(articles'.v) = Len(Seeded) + 1
                    /\ IsPrefix(Seeded, articles'.v)
                    /\ articles'.v[Len(articles'.v)].title = article_call'.title.v
                    /\ articles'.v[Len(articles'.v)].url = article_call'.url.v
               ELSE articles'.v = Seeded]_vars
    /\ [][articles.some =>
            articles'.some /\ IsPrefix(articles.v, articles'.v)]_vars

\* C20 witness: a click without a title is being served after an article
\* was added: the list holds the seeds and that article.
C20_Witness ==
    /\ pc = "manage_articles"
    /\ article_call.triggered
    /\ ~StrTruthy(article_call.title)
    /\ StrTruthy(article_call.url)
    /\ Len(articles.v) = Len(SeedArticles) + 1

\* C23 (as claimed): the call of the first page load, with the layout's
\* presets (years = [], start_year = default_start_year, end_year =
\* default_end_year), admits by year exactly the rows of the default window
\* [maxYear-4, maxYear], which is what years = [], start = None, end = None
\* admits.
C23_Original ==
    (Called /\ years = Some(<<>>)
            /\ start_year = Some(default_start_year)
            /\ end_year = Some(default_end_year)) =>
        /\ filtered.year_filter = YearFilter(Some(<<>>), NoneInt, NoneInt)
        /\ filtered.year_filter = DefaultWindowRows

\* C25: the view of the map update_dashboard returns.  An empty filtered
\* frame gives the fixed centre of Indonesia at zoom 3.5 whatever the trigger;
\* a non-empty one gives the clicked point at zoom 7.5 when the map was
\* clicked, and for the reset button, a filter input or the first page load
\* the mean position of the filtered records at zoom 4, 5, 6 or 7 for more
\* than 500, more than 100, more than 20 or at most 20 records.
C25_MapViewSelection ==
    pc = "map_view" =>
        LET g == map_view.groups
            n == total_quakes(g)
            clicked == map_view.triggered_id = Some("map-graph")
        IN  /\ g = <<>> =>
                /\ map_view.lat = center_lat /\ map_view.lon = center_lon
                /\ map_view.zoom = 35
            /\ (g # <<>> /\ clicked) =>
                /\ map_view.lat = map_view.clickData.v.lat
                /\ map_view.lon = map_view.clickData.v.lon
                /\ map_view.zoom = 75
            /\ (g # <<>> /\ ~clicked) =>
                /\ map_view.lat = DataCenter(g, "latitude")
                /\ map_view.lon = DataCenter(g, "longitude")
                /\ n > 500 => map_view.zoom = 40
                /\ (n > 100 /\ n <= 500) => map_view.zoom = 50
                /\ (n > 20 /\ n <= 100) => map_view.zoom = 60
                /\ n <= 20 => map_view.zoom = 70

\* A filter input triggers the callback after an earlier click on the map,
\* with exactly 500 records: the view is their position at zoom 5.
C25_Witness ==
    /\ pc = "map_view"
    /\ map_view.triggered_id = Some("year-filter")
    /\ map_view.clickData.some
    /\ Len(map_view.groups) = 1
    /\ total_quakes(map_view.groups) = 500
    /\ map_view.zoom = 50
    /\ map_view.lat # map_view.clickData.v.lat

\* C24 (as claimed): on every startup path, with the clustering file present
\* or missing, update_analysis_page for "/analysis" returns its five outputs
\* without error; when the file is missing every record has cluster -1 and
\* the dropdown has no options.
C24_Original ==
    (pc = "update_analysis_page" /\ analysis_call.pathname = "/analysis") =>
        /\ output.kind = "analysis"
        /\ output.outputs = 5
        /\ ~files.clusters =>
            /\ \A i \in Rows : df[i].cluster = -1
            /\ output.options = <<>>

\* The arguments and locals of the request served by the first thread.
Req == posko[1]

\* The request has a non-empty name and a non-empty link from which
\* extract_coordinates_from_gmaps obtains a pair of numbers.
Obtained ==
    /\ Req.name.some /\ Req.name.v # ""
    /\ Req.gmaps_link.some /\ Req.gmaps_link.v # <<>>
    /\ extract_coordinates_from_gmaps(Req.gmaps_link.v).some

Responding == Req.pc \in {"render", "return"}

\* C21: update_evacuation_map appends a post to the evacuation list only when
\* it was triggered by the add button with a non-empty name and a non-empty
\* link from which coordinates were obtained, and then it appends that one
\* post at the end; in every other case the list stays as it is, a page load
\* gives no feedback and a click gives a warning, never the success message.
C21_AppendsOnlyWhenValid ==
    /\ [][(evacuation_data.some /\ evacuation_data' # evacuation_data) =>
            /\ Req.triggered /\ Obtained
            /\ evacuation_data'.some
            /\ Len(evacuation_data'.v) = Len(evacuation_data.v) + 1
            /\ IsPrefix(evacuation_data.v, evacuation_data'.v)
            /\ LET new == evacuation_data'.v[Len(evacuation_data'.v)]
                   p == extract_coordinates_from_gmaps(Req.gmaps_link.v)
               IN  /\ new.name = Req.name.v
                   /\ new.lat = p.lat /\ new.lon = p.lon]_vars
    /\ [](Responding =>
            /\ ~Req.triggered =>
                    Req.feedback = "" /\ Req.feedback_class = "small mt-2"
            /\ (Req.triggered /\ ~Obtained) =>
                    Req.feedback_class \in {"small mt-2 text-warning",
                                            "small mt-2 text-danger"}
            /\ Req.feedback_class = "small mt-2 text-success" => Req.triggered /\ Obtained)

\* C21 witness: after a post was added, a click with a name and a link
\* without coordinates has been answered with the warning, the list still
\* holding the seeds and the one post.
C21_Witness ==
    /\ Req.pc = "return"
    /\ Req.triggered
    /\ Req.name = Some("Posko B")
    /\ Req.gmaps_link = Some(<<"https://goo.gl/maps/abc">>)
    /\ Req.feedback_class = "small mt-2 text-warning"
    /\ Len(Req.posko_list) = Len(SeedPosts) + 1
    /\ Req.posko_list = evacuation_data.v

\* C22 (as claimed): a click with a name and a link from which
\* extract_coordinates_from_gmaps extracts a pair of numbers, a latitude of 0
\* or a longitude of 0 included, is answered with the success message and the
\* list shown ends with the post at those coordinates.
C22_Original ==
    (Req.pc = "return" /\ Req.triggered /\ Obtained) =>
        LET p == extract_coordinates_from_gmaps(Req.gmaps_link.v)
            n == Len(Req.posko_list)
        IN  /\ Req.feedback_class = "small mt-2 text-success"
            /\ Req.posko_list[n].name = Req.name.v
            /\ Req.posko_list[n].lat = p.lat
            /\ Req.posko_list[n].lon = p.lon

\* Thread t has completed a request that was accepted.
Accepted(t) ==
    posko[t].pc = "return" /\ posko[t].feedback_class = "small mt-2 text-success"

\* The post of the request thread t serves.
PostOf(t) ==
    [name |-> posko[t].name.v, lat |-> -72500, lon |-> 1127500,
     address |-> "Dari Google Maps"]

Occurrences(s, p) == Cardinality({i \in DOMAIN s : s[i] = p})

\* C26 (as claimed): when two add requests that both pass validation have
\* completed, under any interleaving of their steps, the list holds the five
\* seeds and both new posts.
C26_Original ==
    (\A t \in Threads : Accepted(t)) =>
        /\ evacuation_data.some
        /\ IsPrefix(SeedPosts, evacuation_data.v)
        /\ \A t \in Threads :
                Occurrences(evacuation_data.v, PostOf(t)) >=
                    Cardinality({u \in Threads : PostOf(u) = PostOf(t)})

\* C26: the seeds are always the first five entries of the list and every
\* other entry is an added post; a request that assigns the list while the
\* list is still the one it read appends its post and keeps every entry, so
\* requests handled one after the other lose nothing; and when two accepted
\* requests have completed the list holds the post of at least one of them.
C26_KeptWithoutOverlap ==
    /\ [](evacuation_data.some =>
            /\ IsPrefix(SeedPosts, evacuation_data.v)
            /\ \A i \in DOMAIN evacuation_data.v :
                    i > Len(SeedPosts) =>
                        evacuation_data.v[i].address = "Dari Google Maps")
    /\ [][\A t \in Threads :
            (/\ posko[t].pc = "store" /\ posko'[t].pc = "render"
             /\ posko[t].snapshot = evacuation_data.v) =>
                evacuation_data'.v = Append(evacuation_data.v, PostOf(t))]_vars
    /\ []((\A t \in Threads : Accepted(t)) =>
            \E t \in Threads : Occurrences(evacuation_data.v, PostOf(t)) >= 1)

\* C26 witness: two accepted requests with different names have completed
\* and the list holds the seeds and both posts.
C26_Witness ==
    /\ \A t \in Threads : Accepted(t)
    /\ posko[1].name # posko[2].name
    /\ Len(evacuation_data.v) = Len(SeedPosts) + 2
    /\ \A t \in Threads : Occurrences(evacuation_data.v, PostOf(t)) = 1

====
